---- MODULE Spec2Model ----
(***************************************************************************)
(* TrustChain (src/app.py): donations earmarked for students, released     *)
(* once a student is fully funded and has a Verified proof, with a         *)
(* one-time admin fee.  The state is the SQLite store (students, ledger,   *)
(* proofs) and, per browser session, Streamlit's session_state copies of   *)
(* the three tables.  Money is kept in integer cents.  Timestamps and the  *)
(* story text are left out: no handler reads them back.                    *)
(***************************************************************************)
EXTENDS Integers, Sequences, FiniteSets, TLC

VARIABLES
    db_students,   \* table students, row i has id i (AUTOINCREMENT, no delete)
    db_ledger,     \* table ledger, in id order
    db_proofs,     \* table proofs, in id order
    students,      \* students[k]: st.session_state.students of session k
    ledger,        \* ledger[k]:   st.session_state.ledger of session k
    proofs,        \* proofs[k]:   st.session_state.proofs of session k
    error,         \* the last script run ended in an uncaught exception
    failures       \* how many script runs have ended so

vars == <<db_students, db_ledger, db_proofs, students, ledger, proofs, error, failures>>

----------------------------------------------------------------------------
(* Bounds of the model *)

MaxStudents == 4
MaxDonations == 2
MaxFailures == 1

(* Inputs *)

Sessions == {1, 2}
OneSession == {1}
Names == {"", "Dan"}
NeedInputs == {0, 30}             \* dollars tried in "Required Amount"
AmountInputs == {-5, 0, 600}      \* dollars tried on the slider, besides its default and maximum
Filenames == {"proof.pdf"}
Contents == {"c1", "c2"}

(* Program constants *)

ADMIN_FEE_PERCENT == 2
SLIDER_MIN == 1
SLIDER_FLOOR == 50
NEED_MIN == 1
NULL == -1
NoneStr == "None"

Cents(dollars) == dollars * 100

----------------------------------------------------------------------------
(* Rows and their conversions *)

SeedStudents ==
    << [name |-> "Alice Chan", need |-> Cents(2000)],
       [name |-> "Ben Wong",   need |-> Cents(1500)],
       [name |-> "Cindy Lee",  need |-> Cents(1000)] >>

\* INSERT INTO students (..., received, ..., doc_hash, released, admin_charged)
\* VALUES (..., 0, ..., NULL, 0, 0)
NewStudentRow(id, name, need) ==
    [id |-> id, name |-> name, need |-> need, received |-> 0,
     doc_hash |-> NoneStr, released |-> 0, admin_charged |-> 0]

IntOfBool(b) == IF b THEN 1 ELSE 0
Truthy(i) == i # 0

StudentRow_NoAdminFlag(s) ==
    [id |-> s.id, name |-> s.name, need |-> s.need, received |-> s.received,
     doc_hash |-> s.doc_hash, released |-> IntOfBool(s.released),
     admin_charged |-> 0]

\* the tuple db_update_student binds: the whole snapshot, flags as int(bool(.))
StudentRow(s) ==
    [id |-> s.id, name |-> s.name, need |-> s.need, received |-> s.received,
     doc_hash |-> s.doc_hash, released |-> IntOfBool(s.released),
     admin_charged |-> IntOfBool(s.admin_charged)]

\* a row as the session reads it: the flags are used by truth value only
LoadStudent(r) ==
    [id |-> r.id, name |-> r.name, need |-> r.need, received |-> r.received,
     doc_hash |-> r.doc_hash, released |-> Truthy(r.released),
     admin_charged |-> Truthy(r.admin_charged)]

LoadStudents(rows) == [i \in DOMAIN rows |-> LoadStudent(rows[i])]

\* a ledger entry; a key the dict does not carry reads as None
Entry(type, s) ==
    [type |-> type, student_id |-> s.id, student_name |-> s.name,
     gross |-> NULL, student_net |-> NULL, admin_fee |-> NULL,
     student_amount |-> NULL, filename |-> NoneStr, file_hash |-> NoneStr,
     amount_released |-> NULL]

\* the ten columns db_add_ledger inserts: amount_released is not one of them
LedgerRow(e) == [e EXCEPT !.amount_released = NULL]

LoadLedger_NewestFirst(rows) == [i \in DOMAIN rows |-> rows[Len(rows) + 1 - i]]

\* SELECT * FROM ledger ORDER BY id ASC
LoadLedger(rows) == rows

LoadProofs(rows) == rows

compute_hash(content) ==
    CASE content = "c1" -> "h1"
      [] content = "c2" -> "h2"

\* UPLOAD_DIR / f"{s['id']}_{ts}_{fname}"
SavePath(sid, fname) == <<sid, fname>>

----------------------------------------------------------------------------
(* One script run works on a world: the session's three lists and the      *)
(* store.  failAt = n > 0 makes the n-th store write of the run raise;     *)
(* nothing after a raise executes (ok = FALSE).                            *)

World(k, failAt) ==
    [students |-> students[k], ledger |-> ledger[k], proofs |-> proofs[k],
     db_students |-> db_students, db_ledger |-> db_ledger,
     db_proofs |-> db_proofs, failAt |-> failAt, writes |-> 0, ok |-> TRUE]

\* a store write: commits, or raises when it is the failAt-th of the run
Write(w, after) ==
    IF ~w.ok THEN w
    ELSE IF w.writes + 1 = w.failAt THEN [w EXCEPT !.ok = FALSE]
    ELSE [after EXCEPT !.writes = w.writes + 1]

\* a statement that touches the session only
Local(w, after) == IF w.ok THEN after ELSE w

db_add_student(w, name, need) ==
    Write(w, [w EXCEPT !.db_students =
                 Append(@, NewStudentRow(Len(@) + 1, name, need))])

db_update_student_AllRows(w, s) ==
    Write(w, [w EXCEPT !.db_students =
                 [i \in DOMAIN w.db_students |->
                     [StudentRow(s) EXCEPT !.id = w.db_students[i].id]]])

\* UPDATE students SET ... WHERE id=?
db_update_student(w, s) ==
    Write(w, [w EXCEPT !.db_students =
                 [i \in DOMAIN @ |-> IF @[i].id = s.id THEN StudentRow(s) ELSE @[i]]])

db_add_ledger(w, e) ==
    Write(w, [w EXCEPT !.db_ledger = Append(@, LedgerRow(e))])

db_add_proof(w, p) ==
    Write(w, [w EXCEPT !.db_proofs = Append(@, p)])

\* UPDATE proofs SET status=?, file_path=? WHERE hash=?
db_update_proof(w, file_hash, status, path) ==
    Write(w, [w EXCEPT !.db_proofs =
                 [i \in DOMAIN @ |->
                     IF @[i].hash = file_hash
                     THEN [@[i] EXCEPT !.status = status, !.file_path = path]
                     ELSE @[i]]])

\* session append first, then the store
add_ledger(w, e) ==
    db_add_ledger(Local(w, [w EXCEPT !.ledger = Append(@, e)]), e)

----------------------------------------------------------------------------
(* Auto-release: fires when the student is fully funded and a proof of his *)
(* is Verified in the session's proofs                                     *)

\* Python's round(x, 2) of n/d cents: to the nearest cent, ties to even
RoundCents(n, d) ==
    LET q == n \div d
        r == n % d
    IN IF 2 * r < d THEN q
       ELSE IF 2 * r > d THEN q + 1
       ELSE IF q % 2 = 0 THEN q ELSE q + 1

\* round(float(student["need"]) * ADMIN_FEE_RATE, 2)
AdminFee(need) == RoundCents(need * ADMIN_FEE_PERCENT, 100)

fully_funded_Always(s) == TRUE

fully_funded(s) == s.received >= s.need

proof_verified_Any(w, s) == TRUE

proof_verified(w, s) ==
    \E i \in DOMAIN w.proofs :
        w.proofs[i].student_id = s.id /\ w.proofs[i].status = "Verified"

Eligible_Again(w, s) == fully_funded(s) /\ proof_verified(w, s)

Eligible(w, s) == fully_funded(s) /\ proof_verified(w, s) /\ ~s.released

MarkReleased_Skipped(s) == s

MarkReleased(s) == [s EXCEPT !.released = TRUE]

MarkAdminCharged_Skipped(s) == s

MarkAdminCharged(s) == [s EXCEPT !.admin_charged = TRUE]

FeeEntry_FromReceived(s) ==
    [Entry("admin_fee", s) EXCEPT !.admin_fee = AdminFee(s.received),
                                  !.student_amount = s.received - AdminFee(s.received)]

FeeEntry(s) ==
    [Entry("admin_fee", s) EXCEPT !.admin_fee = AdminFee(s.need),
                                  !.student_amount = s.need - AdminFee(s.need)]

ReleaseEntry(s) == [Entry("release", s) EXCEPT !.amount_released = s.need]

\* the admin fee block: ledger entry, then the flag
ChargeAdminFee(w, sid) ==
    IF w.students[sid].admin_charged THEN w
    ELSE LET w1 == add_ledger(w, FeeEntry(w.students[sid]))
         IN Local(w1, [w1 EXCEPT !.students[sid] = MarkAdminCharged(@)])

try_auto_release(w, sid) ==
    IF ~w.ok \/ ~Eligible(w, w.students[sid]) THEN w
    ELSE LET w1 == [w EXCEPT !.students[sid] = MarkReleased(@)]
             w2 == ChargeAdminFee(w1, sid)
             w3 == add_ledger(w2, ReleaseEntry(w2.students[sid]))
         IN db_update_student(w3, w3.students[sid])

----------------------------------------------------------------------------
(* Make Donation page *)

Max(a, b) == IF a >= b THEN a ELSE b

\* dollars; remaining = max(need - received, 0)
max_slider(s) ==
    LET remaining == Max(s.need - s.received, 0)
    IN Max(IF remaining >= Cents(1) THEN remaining \div 100 ELSE SLIDER_FLOOR,
           SLIDER_FLOOR)

SliderValues_NoMin(s) ==
    {a \in {SLIDER_FLOOR, max_slider(s)} \cup AmountInputs : a <= max_slider(s)}

\* what the slider can hold: its default, its maximum, or a value in between
SliderValues(s) ==
    {a \in {SLIDER_FLOOR, max_slider(s)} \cup AmountInputs :
        SLIDER_MIN <= a /\ a <= max_slider(s)}

CanDonate_Always(s) == TRUE

\* "This student is fully funded -- donation disabled."
CanDonate(s) == ~fully_funded(s)

DonationEntry_NetOfFee(s, amount) ==
    [Entry("donation", s) EXCEPT !.gross = amount - AdminFee(amount),
                                 !.student_net = amount - AdminFee(amount)]

DonationEntry(s, amount) ==
    [Entry("donation", s) EXCEPT !.gross = amount, !.student_net = amount]

AddReceived_Overwrite(s, amount) == [s EXCEPT !.received = amount]

AddReceived(s, amount) == [s EXCEPT !.received = @ + amount]

DonateRun(w, sid, amount) ==
    LET w1 == add_ledger(w, DonationEntry(w.students[sid], amount))
        w2 == Local(w1, [w1 EXCEPT !.students[sid] = AddReceived(@, amount)])
        w3 == db_update_student(w2, w2.students[sid])
    IN try_auto_release(w3, sid)

----------------------------------------------------------------------------
(* Upload Proof page *)

RefreshProofs(w) == [w EXCEPT !.proofs = LoadProofs(w.db_proofs)]

existing_proof(w, sid) ==
    \E i \in DOMAIN w.proofs : w.proofs[i].student_id = sid

CanUpload_NoFundedGate(w, sid) == ~existing_proof(w, sid)

CanUpload_NoProofGate(w, sid) == fully_funded(w.students[sid])

\* the uploader is shown for a funded student without a proof
CanUpload(w, sid) == fully_funded(w.students[sid]) /\ ~existing_proof(w, sid)

ProofRecord(s, fname, file_hash) ==
    [student_id |-> s.id, student_name |-> s.name, filename |-> fname,
     hash |-> file_hash, status |-> "Reviewing",
     file_path |-> SavePath(s.id, fname)]

ProofEntry(type, s, fname, file_hash) ==
    [Entry(type, s) EXCEPT !.filename = fname, !.file_hash = file_hash]

\* for p in proofs: if p["hash"] == file_hash: ...; break
FirstWithHash(ps, file_hash) ==
    LET hits == {i \in DOMAIN ps : ps[i].hash = file_hash}
    IN IF hits = {} THEN 0 ELSE CHOOSE i \in hits : \A j \in hits : i <= j

MarkVerified(ps, file_hash, path) ==
    LET i == FirstWithHash(ps, file_hash)
    IN IF i = 0 THEN ps
       ELSE [ps EXCEPT ![i] = [@ EXCEPT !.status = "Verified", !.file_path = path]]

\* steps 1 and 2: the Reviewing proof and the proof_upload entry
SubmitStep(w, sid, fname, file_hash) ==
    LET s  == w.students[sid]
        w1 == db_add_proof(w, ProofRecord(s, fname, file_hash))
        w2 == Local(w1, [w1 EXCEPT !.proofs = Append(@, ProofRecord(s, fname, file_hash))])
    IN add_ledger(w2, ProofEntry("proof_upload", s, fname, file_hash))

\* steps 4 to 6: Verified in store and session, proof_verified entry, doc_hash
VerifyStep(w, sid, fname, file_hash) ==
    LET s  == w.students[sid]
        w1 == db_update_proof(w, file_hash, "Verified", SavePath(sid, fname))
        w2 == Local(w1, [w1 EXCEPT !.proofs =
                            MarkVerified(@, file_hash, SavePath(sid, fname))])
        w3 == add_ledger(w2, ProofEntry("proof_verified", s, fname, file_hash))
        w4 == Local(w3, [w3 EXCEPT !.students[sid].doc_hash = file_hash])
    IN db_update_student(w4, w4.students[sid])

SubmitRun(w, sid, fname, content) ==
    LET h == compute_hash(content)
    IN try_auto_release(VerifyStep(SubmitStep(w, sid, fname, h), sid, fname, h), sid)

----------------------------------------------------------------------------
(* Add Student page *)

AddStudentRun(w, name, need) ==
    LET w1 == db_add_student(w, name, need)
    IN Local(w1, [w1 EXCEPT !.students = LoadStudents(w1.db_students)])

----------------------------------------------------------------------------
(* The state machine *)

Seeded ==
    [i \in DOMAIN SeedStudents |->
        NewStudentRow(i, SeedStudents[i].name, SeedStudents[i].need)]

Init ==
    /\ db_students = Seeded
    /\ db_ledger = << >>
    /\ db_proofs = << >>
    /\ students = [k \in Sessions |-> LoadStudents(Seeded)]
    /\ ledger = [k \in Sessions |-> << >>]
    /\ proofs = [k \in Sessions |-> << >>]
    /\ error = FALSE
    /\ failures = 0

\* the end of a script run: what it left in the session and in the store
Commit(k, w) ==
    /\ students' = [students EXCEPT ![k] = w.students]
    /\ ledger' = [ledger EXCEPT ![k] = w.ledger]
    /\ proofs' = [proofs EXCEPT ![k] = w.proofs]
    /\ db_students' = w.db_students
    /\ db_ledger' = w.db_ledger
    /\ db_proofs' = w.db_proofs
    /\ error' = ~w.ok
    /\ failures' = IF w.ok THEN failures ELSE failures + 1

Donations(l) == {i \in DOMAIN l : l[i].type = "donation"}

\* a browser session starts (or is reloaded): the three tables are read
SessionInit(k) ==
    /\ students' = [students EXCEPT ![k] = LoadStudents(db_students)]
    /\ ledger' = [ledger EXCEPT ![k] = LoadLedger(db_ledger)]
    /\ proofs' = [proofs EXCEPT ![k] = LoadProofs(db_proofs)]
    /\ error' = FALSE
    /\ UNCHANGED <<db_students, db_ledger, db_proofs, failures>>

AddStudent(k, name, need, failAt) ==
    /\ Len(db_students) < MaxStudents
    /\ need >= Cents(NEED_MIN)
    /\ Commit(k, AddStudentRun(World(k, failAt), name, need))

Donate(k, sid, dollars, failAt) ==
    /\ sid \in DOMAIN students[k]
    /\ CanDonate(students[k][sid])
    /\ dollars \in SliderValues(students[k][sid])
    /\ Cardinality(Donations(db_ledger)) < MaxDonations
    /\ Cardinality(Donations(ledger[k])) < MaxDonations
    /\ Commit(k, DonateRun(World(k, failAt), sid, Cents(dollars)))

SubmitProof(k, sid, fname, content, failAt) ==
    /\ sid \in DOMAIN students[k]
    /\ CanUpload(RefreshProofs(World(k, failAt)), sid)
    /\ Commit(k, SubmitRun(RefreshProofs(World(k, failAt)), sid, fname, content))

ViewUploadProof(k) ==
    /\ proofs' = [proofs EXCEPT ![k] = LoadProofs(db_proofs)]
    /\ error' = FALSE
    /\ UNCHANGED <<db_students, db_ledger, db_proofs, students, ledger, failures>>

ViewLedger(k) ==
    /\ ledger' = [ledger EXCEPT ![k] = LoadLedger(db_ledger)]
    /\ error' = FALSE
    /\ UNCHANGED <<db_students, db_ledger, db_proofs, students, proofs, failures>>

\* a store write can be made to raise while failures remain to be spent
MayFail(failAt) == failAt = 0 \/ failures < MaxFailures

Handlers(k, failAt) ==
    \/ \E name \in Names, need \in NeedInputs : AddStudent(k, name, Cents(need), failAt)
    \/ \E sid \in DOMAIN students[k] :
          \E dollars \in SliderValues(students[k][sid]) : Donate(k, sid, dollars, failAt)
    \/ \E sid \in DOMAIN students[k], fname \in Filenames, content \in Contents :
          SubmitProof(k, sid, fname, content, failAt)

Views(k) ==
    \/ SessionInit(k)
    \/ ViewUploadProof(k)
    \/ ViewLedger(k)

\* one session, every store write succeeds
Next == \E k \in OneSession : Views(k) \/ Handlers(k, 0)

Spec == Init /\ [][Next]_vars

\* one session, a run may end in a store write that raises
FailPoints == 0..8

NextFail ==
    \E k \in OneSession :
        \/ Views(k)
        \/ \E failAt \in FailPoints : MayFail(failAt) /\ Handlers(k, failAt)

SpecFail == Init /\ [][NextFail]_vars

\* two browser sessions on the same store, every store write succeeds; of
\* the reading pages only the full reload is kept
NextTwo == \E k \in Sessions : SessionInit(k) \/ Handlers(k, 0)

SpecTwo == Init /\ [][NextTwo]_vars

----------------------------------------------------------------------------
(* Properties.  A snapshot is a ledger with the students and proofs read   *)
(* beside it: the store's three tables, or the three lists of a session.   *)

EntriesOf(l, type, sid) ==
    {i \in DOMAIN l : l[i].type = type /\ l[i].student_id = sid}

StoreSnapshot(w) ==
    [students |-> LoadStudents(w.db_students), ledger |-> w.db_ledger,
     proofs |-> w.db_proofs]

SessionSnapshot(w) ==
    [students |-> w.students, ledger |-> w.ledger, proofs |-> w.proofs]

Snapshots(w) == {StoreSnapshot(w), SessionSnapshot(w)}

\* the state as session k's next run finds it
Now(k) == World(k, 0)

\* release evaluation triggered once more, and twice more, for student sid
Retriggered(k, sid) ==
    {try_auto_release(Now(k), sid),
     try_auto_release(try_auto_release(Now(k), sid), sid)}

\* the state, and the states that re-triggering release evaluation leads to
AfterRetrigger(k) ==
    {Now(k)} \cup UNION {Retriggered(k, sid) : sid \in DOMAIN students[k]}

HasVerifiedProof(snap, sid) ==
    \E i \in DOMAIN snap.proofs :
        snap.proofs[i].student_id = sid /\ snap.proofs[i].status = "Verified"

FeeIffCharged(snap) ==
    \A sid \in DOMAIN snap.students :
        /\ EntriesOf(snap.ledger, "admin_fee", sid) # {} <=> snap.students[sid].admin_charged
        /\ Cardinality(EntriesOf(snap.ledger, "admin_fee", sid)) <= 1

\* C1: in the store and in the session, after any sequence of runs and
\* however often release evaluation is triggered again, a student has an
\* admin_fee entry iff admin_charged is set, and never more than one.
C1_AdminFeeIffCharged ==
    \A k \in OneSession : \A w \in AfterRetrigger(k) :
        \A snap \in Snapshots(w) : FeeIffCharged(snap)

\* a charged student with his one admin_fee entry, in store and session
C1_Witness ==
    \E sid \in DOMAIN db_students :
        /\ db_students[sid].admin_charged = 1
        /\ students[1][sid].admin_charged
        /\ Cardinality(EntriesOf(db_ledger, "admin_fee", sid)) = 1
        /\ Cardinality(EntriesOf(ledger[1], "admin_fee", sid)) = 1

ReleaseIffReleased(snap) ==
    \A sid \in DOMAIN snap.students :
        /\ EntriesOf(snap.ledger, "release", sid) # {} <=> snap.students[sid].released
        /\ Cardinality(EntriesOf(snap.ledger, "release", sid)) <= 1

\* C2: in the store and in the session, after any sequence of runs, a
\* student has a release entry iff released is set, and never more than one.
C2_ReleaseIffReleased ==
    \A k \in OneSession : \A snap \in Snapshots(Now(k)) : ReleaseIffReleased(snap)

\* a released student with his one release entry, in store and session
C2_Witness ==
    \E sid \in DOMAIN db_students :
        /\ db_students[sid].released = 1
        /\ students[1][sid].released
        /\ Cardinality(EntriesOf(db_ledger, "release", sid)) = 1
        /\ Cardinality(EntriesOf(ledger[1], "release", sid)) = 1

VerifiedBeforeRelease(snap, sid) ==
    \E i \in EntriesOf(snap.ledger, "proof_verified", sid) :
        \E j \in EntriesOf(snap.ledger, "release", sid) : i < j

NoReleaseWithoutProof(snap) ==
    \A sid \in DOMAIN snap.students :
        /\ snap.students[sid].released =>
              HasVerifiedProof(snap, sid) /\ VerifiedBeforeRelease(snap, sid)
        /\ ~HasVerifiedProof(snap, sid) =>
              /\ EntriesOf(snap.ledger, "admin_fee", sid) = {}
              /\ EntriesOf(snap.ledger, "release", sid) = {}

\* C3: a released student has a Verified proof and a proof_verified entry
\* before his release entry; a student without a Verified proof has no
\* admin_fee and no release entry, fully funded or not.
C3_NoReleaseWithoutVerifiedProof ==
    \A k \in OneSession : \A snap \in Snapshots(Now(k)) : NoReleaseWithoutProof(snap)

\* one student released after verification, another fully funded by
\* donations with no proof and nothing released
C3_Witness ==
    /\ \E sid \in DOMAIN db_students :
          db_students[sid].released = 1 /\ VerifiedBeforeRelease(StoreSnapshot(Now(1)), sid)
    /\ \E sid \in DOMAIN db_students :
          /\ db_students[sid].received >= db_students[sid].need
          /\ EntriesOf(db_ledger, "donation", sid) # {}
          /\ ~existing_proof(RefreshProofs(Now(1)), sid)
          /\ EntriesOf(db_ledger, "release", sid) = {}

\* what the claim promises of a submit-and-verify run for student sid:
\* proof Verified, student released, and after the proof_upload entry the
\* entries proof_verified, admin_fee, release of that student, in this order
SubmitReleases(k, sid) ==
    LET n == Len(db_ledger)
        appended(i, type) ==
            db_ledger'[n + i].type = type /\ db_ledger'[n + i].student_id = sid
    IN /\ \E i \in DOMAIN db_proofs' :
             db_proofs'[i].student_id = sid /\ db_proofs'[i].status = "Verified"
       /\ \E i \in DOMAIN proofs'[k] :
             proofs'[k][i].student_id = sid /\ proofs'[k][i].status = "Verified"
       /\ db_students'[sid].released = 1
       /\ students'[k][sid].released
       /\ Len(db_ledger') = n + 4
       /\ appended(2, "proof_verified")
       /\ appended(3, "admin_fee")
       /\ appended(4, "release")

\* C4: for a fully funded student without a proof, whatever the file and
\* whatever other students did before, the submit-and-verify run ends with
\* the proof Verified and the student released, having appended
\* proof_verified, admin_fee and release for him in this order.
C4_SubmitVerifyReleases ==
    [][\A k \in OneSession : \A sid \in DOMAIN students[k] :
          \A fname \in Filenames, content \in Contents :
              SubmitProof(k, sid, fname, content, 0) => SubmitReleases(k, sid)]_vars

\* C5: no step lowers the received of any student, in the store or in the
\* session.
C5_ReceivedNeverDecreases ==
    [][/\ \A sid \in DOMAIN db_students :
             db_students'[sid].received >= db_students[sid].received
       /\ \A k \in OneSession : \A sid \in DOMAIN students[k] :
             students'[k][sid].received >= students[k][sid].received]_vars

\* a student who has received two donations
C5_Witness ==
    \E sid \in DOMAIN db_students :
        /\ Cardinality(EntriesOf(db_ledger, "donation", sid)) = 2
        /\ db_students[sid].received > 0
        /\ students[1][sid].received = db_students[sid].received

ReleasedImpliesCharged ==
    /\ \A sid \in DOMAIN db_students :
          db_students[sid].released = 1 => db_students[sid].admin_charged = 1
    /\ \A k \in OneSession : \A sid \in DOMAIN students[k] :
          students[k][sid].released => students[k][sid].admin_charged

FlagsStay ==
    /\ \A sid \in DOMAIN db_students :
          /\ db_students[sid].released = 1 => db_students'[sid].released = 1
          /\ db_students[sid].admin_charged = 1 => db_students'[sid].admin_charged = 1
    /\ \A k \in OneSession : \A sid \in DOMAIN students[k] :
          /\ students[k][sid].released => students'[k][sid].released
          /\ students[k][sid].admin_charged => students'[k][sid].admin_charged

\* C6: released and admin_charged, once set in the store or in the session,
\* are never cleared by a later step, and released implies admin_charged in
\* every reachable state.
C6_FlagsOneWay == []ReleasedImpliesCharged /\ [][FlagsStay]_vars

\* a released and charged student, with a later entry in the ledger after
\* his release entry
C6_Witness ==
    \E sid \in DOMAIN db_students :
        /\ db_students[sid].released = 1 /\ db_students[sid].admin_charged = 1
        /\ students[1][sid].released /\ students[1][sid].admin_charged
        /\ \E j \in EntriesOf(db_ledger, "release", sid) : j < Len(db_ledger)

\* C7: release evaluation, run once or twice on a student whose released
\* flag is set, leaves session and store as they were: no ledger entry is
\* appended and no student or proof changes.
C7_ReleaseIdempotent ==
    \A k \in OneSession : \A sid \in DOMAIN students[k] :
        students[k][sid].released =>
            \A w \in Retriggered(k, sid) : w = Now(k)

\* a released student for whom the rest of the eligibility test still holds
C7_Witness ==
    \E sid \in DOMAIN students[1] :
        /\ students[1][sid].released
        /\ fully_funded(students[1][sid])
        /\ proof_verified(Now(1), students[1][sid])

\* C8: a run in which a store write raises leaves no trace: students and
\* ledger, in the store and in the session, are as before the run.
C8_FailedRunLeavesNoTrace ==
    [][error' =>
          /\ db_students' = db_students
          /\ db_ledger' = db_ledger
          /\ \A k \in OneSession :
                students'[k] = students[k] /\ ledger'[k] = ledger[k]]_vars

\* C9: verify acts only on a proof that is Reviewing: the proof the hash
\* identifies is Reviewing when verify runs, a proof in another status is
\* left as it is, and a Verified proof stays Verified.
C9_VerifyOnlyFromReviewing ==
    [][/\ \A k \in OneSession : \A sid \in DOMAIN students[k] :
             \A fname \in Filenames, content \in Contents :
                 SubmitProof(k, sid, fname, content, 0) =>
                     LET h   == compute_hash(content)
                         mid == SubmitStep(RefreshProofs(Now(k)), sid, fname, h)
                     IN /\ mid.proofs[FirstWithHash(mid.proofs, h)].status = "Reviewing"
                        /\ \A i \in DOMAIN mid.db_proofs :
                              mid.db_proofs[i].status # "Reviewing" =>
                                  db_proofs'[i] = mid.db_proofs[i]
       /\ \A i \in DOMAIN db_proofs :
             db_proofs[i].status = "Verified" => db_proofs'[i].status = "Verified"]_vars

ProofsOf(ps, sid) == {i \in DOMAIN ps : ps[i].student_id = sid}

OneProofEach(snap) ==
    \A sid \in DOMAIN snap.students :
        /\ Cardinality(ProofsOf(snap.proofs, sid)) <= 1
        /\ Cardinality(EntriesOf(snap.ledger, "proof_upload", sid)) <= 1

SecondSubmitRefused ==
    \A k \in OneSession : \A sid \in DOMAIN students[k] :
        ProofsOf(db_proofs, sid) # {} =>
            /\ ~CanUpload(RefreshProofs(Now(k)), sid)
            /\ Cardinality(ProofsOf(db_proofs', sid)) = Cardinality(ProofsOf(db_proofs, sid))
            /\ Cardinality(ProofsOf(proofs'[k], sid)) <= 1
            /\ EntriesOf(db_ledger', "proof_upload", sid) = EntriesOf(db_ledger, "proof_upload", sid)
            /\ Cardinality(EntriesOf(ledger'[k], "proof_upload", sid)) <= 1

\* C10: a student who has a proof is not offered the uploader again, no
\* step adds a proof or a proof_upload entry for him, and so every student
\* has at most one proof and at most one proof_upload entry.
C10_OneProofPerStudent ==
    /\ [](\A k \in OneSession : \A snap \in Snapshots(Now(k)) : OneProofEach(snap))
    /\ [][SecondSubmitRefused]_vars

\* a fully funded student with a proof: only the proof gate keeps the
\* uploader from him
C10_Witness ==
    \E sid \in DOMAIN students[1] :
        /\ fully_funded(students[1][sid])
        /\ Cardinality(ProofsOf(db_proofs, sid)) = 1
        /\ Cardinality(EntriesOf(db_ledger, "proof_upload", sid)) = 1
        /\ ~CanUpload(RefreshProofs(Now(1)), sid)

RECURSIVE SumGross(_, _)
\* the gross amounts of the entries of l at the positions in S, added up
SumGross(l, S) ==
    IF S = {} THEN 0
    ELSE LET i == CHOOSE x \in S : TRUE
         IN l[i].gross + SumGross(l, S \ {i})

\* what the donation entries of student sid before position j add up to
DonatedBefore(l, sid, j) ==
    SumGross(l, {i \in EntriesOf(l, "donation", sid) : i < j})

Donated(l, sid) == SumGross(l, EntriesOf(l, "donation", sid))

UploadsAreFunded(snap) ==
    \A j \in DOMAIN snap.ledger :
        snap.ledger[j].type = "proof_upload" =>
            DonatedBefore(snap.ledger, snap.ledger[j].student_id, j)
                >= snap.students[snap.ledger[j].student_id].need

UnfundedHasNoProof(k) ==
    \A sid \in DOMAIN students[k] :
        ~fully_funded(students[k][sid]) =>
            /\ ~CanUpload(RefreshProofs(Now(k)), sid)
            /\ ProofsOf(db_proofs, sid) = {}
            /\ EntriesOf(db_ledger, "proof_upload", sid) = {}

\* C11: a student who is not fully funded is not offered the uploader and
\* has no proof and no proof_upload entry; every proof_upload entry comes
\* after donation entries of the same student that add up to his need.
C11_UploadOnlyWhenFunded ==
    \A k \in OneSession :
        /\ UnfundedHasNoProof(k)
        /\ \A snap \in Snapshots(Now(k)) : UploadsAreFunded(snap)

\* a proof_upload entry of a student funded by two donations, beside a
\* student who has donations but is not yet funded
C11_Witness ==
    /\ \E sid \in DOMAIN db_students :
          /\ EntriesOf(db_ledger, "proof_upload", sid) # {}
          /\ Cardinality(EntriesOf(db_ledger, "donation", sid)) = 2
    /\ \E sid \in DOMAIN students[1] : ~fully_funded(students[1][sid])

DonationsWhileUnfunded(snap) ==
    \A j \in DOMAIN snap.ledger :
        snap.ledger[j].type = "donation" =>
            DonatedBefore(snap.ledger, snap.ledger[j].student_id, j)
                < snap.students[snap.ledger[j].student_id].need

\* C12: a fully funded student is not offered the donate button, and every
\* donation entry was appended while the earlier donation entries of the
\* same student added up to less than his need.
C12_NoDonationWhenFunded ==
    \A k \in OneSession :
        /\ \A sid \in DOMAIN students[k] :
              fully_funded(students[k][sid]) => ~CanDonate(students[k][sid])
        /\ \A snap \in Snapshots(Now(k)) : DonationsWhileUnfunded(snap)

\* a student whose donations reached his need: the button is gone
C12_Witness ==
    \E sid \in DOMAIN students[1] :
        /\ EntriesOf(db_ledger, "donation", sid) # {}
        /\ Donated(db_ledger, sid) >= students[1][sid].need
        /\ ~CanDonate(students[1][sid])

PositiveDonations(snap) ==
    \A j \in DOMAIN snap.ledger :
        snap.ledger[j].type = "donation" => snap.ledger[j].gross > 0

\* C13: an amount <= 0 is not accepted for any student, so no run donates
\* it, and every donation entry has gross > 0.
C13_NoNonPositiveDonation ==
    \A k \in OneSession :
        /\ \A sid \in DOMAIN students[k] : \A a \in AmountInputs :
              a <= 0 => a \notin SliderValues(students[k][sid])
        /\ \A snap \in Snapshots(Now(k)) : PositiveDonations(snap)

\* amounts of 0 and below are among those tried, on a student who takes
\* donations and has received one
C13_Witness ==
    /\ \E a \in AmountInputs : a = 0
    /\ \E a \in AmountInputs : a < 0
    /\ \E sid \in DOMAIN students[1] :
          /\ CanDonate(students[1][sid])
          /\ EntriesOf(db_ledger, "donation", sid) # {}

Untouched(sid) == \A j \in DOMAIN db_ledger : db_ledger[j].student_id # sid

\* C14: every student has a non-empty name and need > 0, and one no run has
\* touched yet has received = 0, released and admin_charged unset and no
\* doc_hash.
C14_StudentsAreValid ==
    \A sid \in DOMAIN db_students :
        /\ db_students[sid].name # ""
        /\ db_students[sid].need > 0
        /\ Untouched(sid) =>
              /\ db_students[sid].received = 0
              /\ db_students[sid].released = 0
              /\ db_students[sid].admin_charged = 0
              /\ db_students[sid].doc_hash = NoneStr

IsPrefix(a, b) == Len(a) <= Len(b) /\ \A i \in DOMAIN a : a[i] = b[i]

\* C15: across every step the ledger read from the store, oldest first, is
\* a prefix of the ledger read after the step.
C15_LedgerAppendOnly ==
    [][IsPrefix(LoadLedger(db_ledger), LoadLedger(db_ledger'))]_vars

\* a ledger of several kinds of entries, read back into the session
C15_Witness ==
    /\ Len(db_ledger) >= 5
    /\ ledger[1] = LoadLedger(db_ledger)
    /\ \E j \in DOMAIN db_ledger : db_ledger[j].type = "release"

\* C16: every release entry read back from the store carries
\* amount_released equal to the need of its student.
C16_ReleaseAmountPersisted ==
    \A j \in DOMAIN LoadLedger(db_ledger) :
        LoadLedger(db_ledger)[j].type = "release" =>
            LoadLedger(db_ledger)[j].amount_released
                = db_students[LoadLedger(db_ledger)[j].student_id].need

Abs(x) == IF x >= 0 THEN x ELSE 0 - x

FeeFromNeed(snap) ==
    \A j \in DOMAIN snap.ledger :
        snap.ledger[j].type = "admin_fee" =>
            LET e    == snap.ledger[j]
                need == snap.students[e.student_id].need
            IN /\ 2 * Abs(100 * e.admin_fee - need * ADMIN_FEE_PERCENT) <= 100
               /\ e.admin_fee + e.student_amount = need
               /\ 0 <= e.admin_fee /\ e.admin_fee <= need

\* C17: every admin_fee entry has admin_fee equal to ADMIN_FEE_RATE of the
\* need of its student to the nearest cent, student_amount the rest of the
\* need, and 0 <= admin_fee <= need, also when received exceeds need.
C17_FeeFromNeed ==
    \A k \in OneSession : \A snap \in Snapshots(Now(k)) : FeeFromNeed(snap)

\* an overfunded student who has been charged
C17_Witness ==
    \E sid \in DOMAIN db_students :
        /\ db_students[sid].received > db_students[sid].need
        /\ EntriesOf(db_ledger, "admin_fee", sid) # {}

\* C18: with two sessions the store stays as some run of one session
\* leaves it: no donation is lost (received is what the donation entries
\* add up to) and no student is charged or released twice.
C18_TwoSessionsSerial ==
    \A sid \in DOMAIN db_students :
        /\ db_students[sid].received = Donated(db_ledger, sid)
        /\ Cardinality(EntriesOf(db_ledger, "admin_fee", sid)) <= 1
        /\ Cardinality(EntriesOf(db_ledger, "release", sid)) <= 1

\* C19: in no state, the one a raising store write leaves included, is a
\* student released, in the store or in the session, without his release
\* entry in the ledger beside it.
C19_ReleasedOnlyAfterEntry ==
    \A k \in OneSession : \A snap \in Snapshots(Now(k)) :
        \A sid \in DOMAIN snap.students :
            snap.students[sid].released => EntriesOf(snap.ledger, "release", sid) # {}

ReceivedIsDonated(snap) ==
    \A sid \in DOMAIN snap.students :
        snap.students[sid].received = Donated(snap.ledger, sid)

DonateAddsOne(k, sid, dollars) ==
    LET n == Len(db_ledger)
    IN /\ EntriesOf(db_ledger', "donation", sid)
             = EntriesOf(db_ledger, "donation", sid) \cup {n + 1}
       /\ db_ledger'[n + 1].gross = Cents(dollars)
       /\ db_students'[sid].received = db_students[sid].received + Cents(dollars)
       /\ students'[k][sid].received = students[k][sid].received + Cents(dollars)

\* C20: after every run the received of each student, in the store and in
\* the session, is what the gross amounts of his donation entries add up
\* to, and a donation appends one donation entry with gross = amount and
\* raises received by that amount.
C20_ReceivedIsSumOfDonations ==
    /\ [](\A k \in OneSession : \A snap \in Snapshots(Now(k)) : ReceivedIsDonated(snap))
    /\ [][\A k \in OneSession : \A sid \in DOMAIN students[k] :
             \A dollars \in SliderValues(students[k][sid]) :
                 Donate(k, sid, dollars, 0) => DonateAddsOne(k, sid, dollars)]_vars

\* two students with donations, each with received equal to their sum
C20_Witness ==
    \E s1, s2 \in DOMAIN db_students :
        /\ s1 # s2
        /\ Donated(db_ledger, s1) > 0 /\ Donated(db_ledger, s2) > 0
        /\ db_students[s1].received = Donated(db_ledger, s1)
        /\ db_students[s2].received = Donated(db_ledger, s2)

\* student sid as release evaluation can find him: as he is, short of his
\* need by a cent, with no proof in the session, or already released
EvaluationInputs(k, sid) ==
    {Now(k),
     [Now(k) EXCEPT !.students[sid].received = Now(k).students[sid].need - 1],
     [Now(k) EXCEPT !.proofs = << >>],
     [Now(k) EXCEPT !.students[sid].released = TRUE]}

MeetsPredicate(w, sid) ==
    /\ w.students[sid].received >= w.students[sid].need
    /\ HasVerifiedProof(SessionSnapshot(w), sid)
    /\ ~w.students[sid].released

ReleasedAreFunded(snap) ==
    \A sid \in DOMAIN snap.students :
        snap.students[sid].released =>
            snap.students[sid].received >= snap.students[sid].need

\* C21: in the store and in the session every released student has
\* received >= need; release evaluation of a student for whom one of
\* received >= need, a Verified proof, not released is false changes
\* nothing, and where the three hold it releases him.
C21_ReleaseOnlyWhenEligible ==
    \A k \in OneSession :
        /\ \A snap \in Snapshots(Now(k)) : ReleasedAreFunded(snap)
        /\ \A sid \in DOMAIN students[k] : \A w \in EvaluationInputs(k, sid) :
              IF MeetsPredicate(w, sid)
              THEN /\ try_auto_release(w, sid).students[sid].released
                   /\ EntriesOf(try_auto_release(w, sid).db_ledger, "release", sid) # {}
              ELSE try_auto_release(w, sid) = w

\* one student released, one fully funded with a Verified proof in the
\* session and not yet released, one short of his need
C21_Witness ==
    /\ \E sid \in DOMAIN students[1] :
          /\ students[1][sid].released /\ db_students[sid].released = 1
          /\ students[1][sid].received >= students[1][sid].need
    /\ \E sid \in DOMAIN students[1] : MeetsPredicate(Now(1), sid)
    /\ \E sid \in DOMAIN students[1] :
          students[1][sid].received < students[1][sid].need

\* the proofs of students other than sid are, after the run, what they were
\* in the store when the run began
OthersProofsUnchanged(k, sid) ==
    \A i \in DOMAIN db_proofs :
        db_proofs[i].student_id # sid =>
            /\ db_proofs'[i] = db_proofs[i]
            /\ proofs'[k][i] = LoadProofs(db_proofs)[i]

\* C22: the run that submits and verifies the proof of one student leaves
\* status, filename, hash and file_path of every other student's proof as
\* they were, in the store and in the session, also when the file has the
\* content of a file another student submitted.
C22_VerifyTouchesOwnProofOnly ==
    [][\A k \in OneSession : \A sid \in DOMAIN students[k] :
          \A fname \in Filenames, content \in Contents :
              SubmitProof(k, sid, fname, content, 0) => OthersProofsUnchanged(k, sid)]_vars

StudentsAgree(k) ==
    /\ DOMAIN students[k] = DOMAIN db_students
    /\ \A sid \in DOMAIN students[k] :
          LET s == students[k][sid]
              r == LoadStudent(db_students[sid])
          IN /\ s.received = r.received
             /\ s.released = r.released
             /\ s.admin_charged = r.admin_charged
             /\ s.doc_hash = r.doc_hash

ProofsAgree(k) ==
    \A i \in DOMAIN proofs[k] :
        /\ i \in DOMAIN db_proofs
        /\ proofs[k][i].student_id = db_proofs[i].student_id
        /\ proofs[k][i].status = db_proofs[i].status

\* release evaluation, reading the session's proofs, finds a Verified proof
\* for a student exactly when the store holds one
EvaluationSeesStore(k) ==
    \A sid \in DOMAIN students[k] :
        proof_verified(Now(k), students[k][sid])
            <=> HasVerifiedProof(StoreSnapshot(Now(k)), sid)

\* C23: after every run of a single session whose store writes succeed,
\* each student of the session has the received, released, admin_charged
\* and doc_hash of his stored row, each proof of the session has the status
\* of its stored row, and release evaluation sees a Verified proof exactly
\* where the store holds one.
C23_SessionAgreesWithStore ==
    \A k \in OneSession :
        StudentsAgree(k) /\ ProofsAgree(k) /\ EvaluationSeesStore(k)

OthersUnchanged(k, sid) ==
    \A other \in DOMAIN db_students :
        other # sid =>
            /\ db_students'[other] = db_students[other]
            /\ other \in DOMAIN students[k] => students'[k][other] = students[k][other]

NeedUnchanged ==
    /\ \A sid \in DOMAIN db_students : db_students'[sid].need = db_students[sid].need
    /\ \A k \in OneSession : \A sid \in DOMAIN students[k] :
          students'[k][sid].need = students[k][sid].need

\* C24: a donation to a student, and the run that submits and verifies his
\* proof and evaluates his release, leave the row and the session snapshot
\* of every other student as they were; no step changes the need of a
\* student, in the store or in the session.
C24_OthersAndNeedUnchanged ==
    [][/\ \A k \in OneSession : \A sid \in DOMAIN students[k] :
             /\ \A dollars \in SliderValues(students[k][sid]) :
                   Donate(k, sid, dollars, 0) => OthersUnchanged(k, sid)
             /\ \A fname \in Filenames, content \in Contents :
                   SubmitProof(k, sid, fname, content, 0) => OthersUnchanged(k, sid)
       /\ NeedUnchanged]_vars

\* a student released after his proof, beside another student who holds a
\* donation and a third added on the Add Student page
C24_Witness ==
    /\ Len(db_students) > Len(SeedStudents)
    /\ \E s1, s2 \in DOMAIN db_students :
          /\ s1 # s2
          /\ db_students[s1].released = 1 /\ db_students[s1].doc_hash # NoneStr
          /\ db_students[s2].received > 0 /\ db_students[s2].released = 0
          /\ students[1][s2] = LoadStudent(db_students[s2])

DocHashByVerification(snap) ==
    \A sid \in DOMAIN snap.students :
        /\ snap.students[sid].doc_hash # NoneStr
              <=> EntriesOf(snap.ledger, "proof_verified", sid) # {}
        /\ snap.students[sid].doc_hash # NoneStr =>
              /\ ProofsOf(snap.proofs, sid) # {}
              /\ \A i \in ProofsOf(snap.proofs, sid) :
                    /\ snap.proofs[i].hash = snap.students[sid].doc_hash
                    /\ snap.proofs[i].status = "Verified"

\* C25: in the store and in the session a student has a doc_hash iff the
\* ledger holds a proof_verified entry of his, and then the doc_hash is the
\* hash of his own proof and that proof is Verified.
C25_DocHashSetByVerification ==
    \A k \in OneSession : \A snap \in Snapshots(Now(k)) : DocHashByVerification(snap)

====
